---- MODULE Spec2Model ----
(***************************************************************************)
(* AppClub: the heuristic e-mail parsing engine (gmail_parser.py and       *)
(* backend/app.py), the /api/parse_and_add endpoint and the batch export   *)
(* loop of gmail_parser.main.                                              *)
(*                                                                         *)
(* Text is a sequence of one-character strings, so that the regular        *)
(* expressions of the source can be modelled character by character.       *)
(* Python's None is the value None below, which no text equals.            *)
(***************************************************************************)
EXTENDS Integers, Sequences, FiniteSets, TLC

\* ------------------------------------------------------------------ text

None == <<"<None>">>

\* Python truthiness of an Optional[str]: None and "" are falsy.
Truthy(x) == x # None /\ x # <<>>

\* `x or ""`
OrEmpty(x) == IF Truthy(x) THEN x ELSE <<>>

Min(S) == CHOOSE x \in S : \A y \in S : x <= y

Max(S) == CHOOSE x \in S : \A y \in S : x >= y

Range(s) == {s[k] : k \in DOMAIN s}

UpperCase == <<"A", "B", "C", "D", "E", "F", "G", "H", "I", "J", "K", "L", "M", "N", "O", "P", "Q", "R", "S", "T", "U", "V", "W", "X", "Y", "Z">>

LowerCase == <<"a", "b", "c", "d", "e", "f", "g", "h", "i", "j", "k", "l", "m", "n", "o", "p", "q", "r", "s", "t", "u", "v", "w", "x", "y", "z">>

Digits == <<"0", "1", "2", "3", "4", "5", "6", "7", "8", "9">>

Whitespace == {" ", "\t", "\n", "\r"}

LowerOf == [c \in Range(UpperCase) |-> LowerCase[CHOOSE k \in 1..26 : UpperCase[k] = c]]

\* str.lower on one character, and on a text.
lower(c) == IF c \in DOMAIN LowerOf THEN LowerOf[c] ELSE c

lower_str(s) == [k \in DOMAIN s |-> lower(s[k])]

\* A character class of a pattern: [chars], or [^chars] when neg.
Class(chars) == [neg |-> FALSE, chars |-> chars]

NotClass(chars) == [neg |-> TRUE, chars |-> chars]

In(c, cls) == (c \in cls.chars) # cls.neg

\* \s, and str.isspace
Space == Class(Whitespace)

IsSpace(c) == In(c, Space)

Alnum == Range(UpperCase) \cup Range(LowerCase) \cup Range(Digits)

\* s[a:b] with 1-based a and exclusive b.
Sub(s, a, b) == SubSeq(s, a, b - 1)

\* The number of consecutive characters of s from position i on that are in cls.
Run(s, i, cls) ==
    IF i > Len(s) THEN 0
    ELSE LET stops == {k \in i..Len(s) : ~In(s[k], cls)}
         IN  IF stops = {} THEN Len(s) + 1 - i ELSE Min(stops) - i

\* str.strip()
strip(s) ==
    LET keep == {k \in DOMAIN s : ~IsSpace(s[k])}
    IN  IF keep = {} THEN <<>> ELSE SubSeq(s, Min(keep), Max(keep))

\* str.endswith
endswith(s, suffix) ==
    /\ Len(suffix) <= Len(s)
    /\ SubSeq(s, Len(s) - Len(suffix) + 1, Len(s)) = suffix

\* len(s.split()): the number of whitespace-delimited words.
WordCount(s) ==
    Cardinality({k \in DOMAIN s : ~IsSpace(s[k]) /\ (k = 1 \/ IsSpace(s[k - 1]))})

\* The literal lit stands in s at position i (re.I: compared case-insensitively).
LitAt(s, i, lit) ==
    /\ i >= 1
    /\ i + Len(lit) - 1 <= Len(s)
    /\ \A k \in 1..Len(lit) : lower(s[i + k - 1]) = lower(lit[k])

\* x in s, for texts.
Contains(s, lit) == \E i \in 1..(Len(s) + 1) : LitAt(s, i, lit)

Opt(cond, x) == IF cond THEN <<x>> ELSE <<>>

\* The first element of a sequence of attempts, or `otherwise` when there is none.
FirstOr(seq, otherwise) == Head(seq \o <<otherwise>>)

\* The first position (not 0) of a sequence of attempts, 0 when every attempt failed.
FirstPos(attempts) == FirstOr(SelectSeq(attempts, LAMBDA r : r # 0), 0)

\* A span <<from, to>> of a text, to exclusive; NoSpan when an attempt failed.
NoSpan == <<0, 0>>

FirstSpan(attempts) == FirstOr(SelectSeq(attempts, LAMBDA c : c # NoSpan), NoSpan)

\* A greedy repeat of cls from position `from`: the positions it can end at,
\* in the order a backtracking matcher tries them (longest repeat first).
Backtrack(s, from, cls) == [n \in 1..(Run(s, from, cls) + 1) |-> from + Run(s, from, cls) + 1 - n]

\* The end of the literal lit at position k, 0 when it does not stand there.
LitEnd(s, k, lit) == IF LitAt(s, k, lit) THEN k + Len(lit) ELSE 0

\* A greedy repeat of cls from position `from`, then the literal lit: the end
\* positions of lit, longest repeat first.
AfterRun(s, from, cls, lit) ==
    SelectSeq([n \in 1..(Run(s, from, cls) + 1) |-> LitEnd(s, Backtrack(s, from, cls)[n], lit)],
              LAMBDA k : k # 0)

\* ------------------------------------------------- confirmation_regex

confirmation_phrases == <<
    <<"t", "h", "a", "n", "k", " ", "y", "o", "u", " ", "f", "o", "r", " ", "a", "p", "p", "l", "y", "i", "n", "g">>,
    <<"t", "h", "a", "n", "k", " ", "y", "o", "u", " ", "f", "o", "r", " ", "y", "o", "u", "r", " ", "a", "p", "p", "l", "i", "c", "a", "t", "i", "o", "n">>,
    <<"w", "e", " ", "h", "a", "v", "e", " ", "r", "e", "c", "e", "i", "v", "e", "d", " ", "y", "o", "u", "r", " ", "a", "p", "p", "l", "i", "c", "a", "t", "i", "o", "n">>,
    <<"a", "p", "p", "l", "i", "c", "a", "t", "i", "o", "n", " ", "r", "e", "c", "e", "i", "v", "e", "d">>,
    <<"y", "o", "u", "r", " ", "s", "u", "b", "m", "i", "s", "s", "i", "o", "n", " ", "h", "a", "s", " ", "b", "e", "e", "n", " ", "r", "e", "c", "e", "i", "v", "e", "d">>,
    <<"a", "p", "p", "l", "i", "c", "a", "t", "i", "o", "n", " ", "c", "o", "n", "f", "i", "r", "m", "a", "t", "i", "o", "n">>,
    <<"t", "h", "a", "n", "k", " ", "y", "o", "u", " ", "f", "o", "r", " ", "s", "u", "b", "m", "i", "t", "t", "i", "n", "g", " ", "y", "o", "u", "r", " ", "a", "p", "p", "l", "i", "c", "a", "t", "i", "o", "n">> >>

\* confirmation_regex.search(s) is not None
confirmation_regex(s) ==
    \E n \in DOMAIN confirmation_phrases : Contains(s, confirmation_phrases[n])


\* ------------------------------------------------------- job_id_regex

NoMatch == [found |-> FALSE]

\* [\s:]  (app.py)
JobSep_app == Class(Whitespace \cup {":"})

\* [A-Za-z0-9\-\_/]  (app.py)
JobTok_app == Class(Alnum \cup {"-", "_", "/"})

\* [\\s:] in gmail_parser.py: a backslash, the letter s, a colon.
JobSep_gmail == Class({"\\", "s", "S", ":"})

\* [A-Za-z0-9\\-\\_/] in gmail_parser.py: \\-\\ is the range from backslash to
\* backslash, so the class holds no hyphen.
JobTok_gmail == Class(Alnum \cup {"\\", "_", "/"})

\* the letter s under re.I
LetterS == Class({"s", "S"})

\* The label alternation of app.py's job_id_regex at position i: the end
\* position of every way the alternation matches, in the order a backtracking
\* matcher tries them.
\* (?:Req(?:\.|uisition)?|Requisition|Job\s*ID|Req#|Requisition\s*ID|Job\s*Req)
LabelEnds_app(s, i) ==
       Opt(LitAt(s, i, <<"R", "e", "q", ".">>), i + 4)
    \o Opt(LitAt(s, i, <<"R", "e", "q", "u", "i", "s", "i", "t", "i", "o", "n">>), i + 11)
    \o Opt(LitAt(s, i, <<"R", "e", "q">>), i + 3)
    \o Opt(LitAt(s, i, <<"R", "e", "q", "u", "i", "s", "i", "t", "i", "o", "n">>), i + 11)
    \o (IF LitAt(s, i, <<"J", "o", "b">>) THEN AfterRun(s, i + 3, Space, <<"I", "D">>) ELSE <<>>)
    \o Opt(LitAt(s, i, <<"R", "e", "q", "#">>), i + 4)
    \o (IF LitAt(s, i, <<"R", "e", "q", "u", "i", "s", "i", "t", "i", "o", "n">>) THEN AfterRun(s, i + 11, Space, <<"I", "D">>) ELSE <<>>)
    \o (IF LitAt(s, i, <<"J", "o", "b">>) THEN AfterRun(s, i + 3, Space, <<"R", "e", "q">>) ELSE <<>>)

\* The same alternation as gmail_parser.py writes it, with doubled backslashes
\* in a raw string: \\. is a backslash and any character but a newline, \\s* is
\* a backslash and any number of the letter s.
\* (?:Req(?:\\.|uisition)?|Requisition|Job\\s*ID|Req#|Requisition\\s*ID|Job\\s*Req)
LabelEnds_gmail(s, i) ==
       Opt(LitAt(s, i, <<"R", "e", "q", "\\">>) /\ i + 4 <= Len(s) /\ s[i + 4] # "\n", i + 5)
    \o Opt(LitAt(s, i, <<"R", "e", "q", "u", "i", "s", "i", "t", "i", "o", "n">>), i + 11)
    \o Opt(LitAt(s, i, <<"R", "e", "q">>), i + 3)
    \o Opt(LitAt(s, i, <<"R", "e", "q", "u", "i", "s", "i", "t", "i", "o", "n">>), i + 11)
    \o (IF LitAt(s, i, <<"J", "o", "b", "\\">>) THEN AfterRun(s, i + 4, LetterS, <<"I", "D">>) ELSE <<>>)
    \o Opt(LitAt(s, i, <<"R", "e", "q", "#">>), i + 4)
    \o (IF LitAt(s, i, <<"R", "e", "q", "u", "i", "s", "i", "t", "i", "o", "n", "\\">>) THEN AfterRun(s, i + 12, LetterS, <<"I", "D">>) ELSE <<>>)
    \o (IF LitAt(s, i, <<"J", "o", "b", "\\">>) THEN AfterRun(s, i + 4, LetterS, <<"R", "e", "q">>) ELSE <<>>)

\* #? at position q: "#" is no token character, so a "#" there is consumed.
HashSkip(s, q) == IF q <= Len(s) /\ s[q] = "#" THEN q + 1 ELSE q

\* A token character stands at position r: r, else 0.
TokenAt(s, r, tok) == IF r <= Len(s) /\ In(s[r], tok) THEN r ELSE 0

\* After a label that ends at e: <sep>*#?(<tok>+). The start of the captured
\* token, or 0. The separator repeat is greedy and gives back one character
\* at a time.
TokenStart(s, e, sep, tok) ==
    FirstPos([n \in 1..(Run(s, e, sep) + 1) |->
                 TokenAt(s, HashSkip(s, Backtrack(s, e, sep)[n]), tok)])

\* The match of a job-id pattern whose label can end at `ends`: the start of
\* group 1, or 0.
JobIdAt(s, ends, sep, tok) ==
    FirstPos([n \in DOMAIN ends |-> TokenStart(s, ends[n], sep, tok)])

\* group(1) of the match whose group starts at r
JobIdGroup(s, r, tok) ==
    IF r = 0 THEN NoMatch ELSE [found |-> TRUE, id |-> Sub(s, r, r + Run(s, r, tok))]

\* job_id_regex.search(s) of backend/app.py: the leftmost match.
job_id_regex_app(s) ==
    JobIdGroup(s, FirstPos([i \in 1..Len(s) |->
                               JobIdAt(s, LabelEnds_app(s, i), JobSep_app, JobTok_app)]),
               JobTok_app)

\* job_id_regex.search(s) of gmail_parser.py.
job_id_regex_gmail(s) ==
    JobIdGroup(s, FirstPos([i \in 1..Len(s) |->
                               JobIdAt(s, LabelEnds_gmail(s, i), JobSep_gmail, JobTok_gmail)]),
               JobTok_gmail)

\* ---------------------------------------------------- subject pattern

\* "." without re.DOTALL
Dot == NotClass({"\n"})

\* <run>*(?P<company>.+) from position k1: the start of the company, or 0.
\* The company then runs to the end of the line.
CompanyStart(s, k1, run) ==
    FirstPos([n \in 1..(Run(s, k1, run) + 1) |-> TokenAt(s, Backtrack(s, k1, run)[n], Dot)])

\* <sep><pre><run>*(?P<company>.+) from position k, for one separator
SepThenCompany(s, k, sep, pre, run) ==
    IF LitAt(s, k, sep) /\ LitAt(s, k + Len(sep), pre)
    THEN CompanyStart(s, k + Len(sep) + Len(pre), run) ELSE 0

\* (?:<seps>)<pre><run>*(?P<company>.+) from position k: the separators are
\* tried in their written order.
AfterSep(s, k, pre, run, seps) ==
    FirstPos([a \in DOMAIN seps |-> SepThenCompany(s, k, seps[a], pre, run)])

\* <pre><run>*(?:<seps>)<pre><run>*(?P<company>.+) after a title that ends at j
AfterTitle(s, j, pre, run, seps) ==
    IF ~LitAt(s, j, pre) THEN 0
    ELSE FirstPos([n \in 1..(Run(s, j + Len(pre), run) + 1) |->
                      AfterSep(s, Backtrack(s, j + Len(pre), run)[n], pre, run, seps)])

\* A split <<title start, title end, company start>>
NoSplit == <<0, 0, 0>>

\* The match that starts at position i: the title is lazy, shortest first.
SubjectSplitAt(s, i, pre, run, seps) ==
    FirstOr(SelectSeq([n \in 1..Run(s, i, Dot) |->
                          <<i, i + n, AfterTitle(s, i + n, pre, run, seps)>>],
                      LAMBDA c : c[3] # 0),
            NoSplit)

\* The groups of a split
SubjectGroups(s, c) ==
    IF c = NoSplit THEN NoMatch
    ELSE [found |-> TRUE, title |-> Sub(s, c[1], c[2]),
          company |-> Sub(s, c[3], c[3] + Run(s, c[3], Dot))]

\* (?P<title>.+?) <pre> <run>* (?:<seps>) <pre> <run>* (?P<company>.+): the
\* leftmost match.
SubjectSplit(s, pre, run, seps) ==
    SubjectGroups(s, FirstOr(SelectSeq([i \in 1..Len(s) |-> SubjectSplitAt(s, i, pre, run, seps)],
                                       LAMBDA c : c # NoSplit),
                             NoSplit))

\* subject_pattern.search(s) of backend/app.py:
\* (?P<title>.+?)\s*(?:-|:|\|)\s*(?P<company>.+)
subject_pattern(s) == SubjectSplit(s, <<>>, Space, << <<"-">>, <<":">>, <<"|">> >>)

\* The subject pattern as gmail_parser.py writes it, with doubled backslashes
\* in a raw string: (?P<title>.+?)\\s*(?:-|:|\\|)\\s*(?P<company>.+)
\* \\s* is a backslash and any number of the letter s; the alternation is
\* "-", ":", a backslash, or nothing.
subject_pattern_gmail(s) ==
    SubjectSplit(s, <<"\\">>, LetterS, << <<"-">>, <<":">>, <<"\\">>, <<>> >>)

\* ------------------------------------------------- thank_you_patterns

\* [^\.!,\n\r]
CompanyChar == NotClass({".", "!", ",", "\n", "\r"})

\* Each pattern is  <head> [.*?] (?:<alts>) \s+ (?P<company>[^\.!,\n\r]+) [<tail>].
thank_you_patterns == <<
    [head |-> <<"t", "h", "a", "n", "k", " ", "y", "o", "u", " ", "f", "o", "r", " ">>, lazy |-> FALSE, tail |-> FALSE,
     alts |-> << <<"a", "p", "p", "l", "y", "i", "n", "g", " ", "t", "o">>, <<"y", "o", "u", "r", " ", "a", "p", "p", "l", "i", "c", "a", "t", "i", "o", "n", " ", "t", "o">>, <<"s", "u", "b", "m", "i", "t", "t", "i", "n", "g", " ", "y", "o", "u", "r", " ", "a", "p", "p", "l", "i", "c", "a", "t", "i", "o", "n", " ", "t", "o">> >>],
    [head |-> <<"t", "h", "a", "n", "k", "s", " ", "f", "o", "r", " ", "a", "p", "p", "l", "y", "i", "n", "g", " ", "t", "o">>, lazy |-> FALSE, tail |-> FALSE,
     alts |-> << <<>> >>],
    [head |-> <<"a", "p", "p", "l", "i", "c", "a", "t", "i", "o", "n", " ", "r", "e", "c", "e", "i", "v", "e", "d">>, lazy |-> TRUE, tail |-> FALSE,
     alts |-> << <<"a", "t">>, <<"f", "o", "r">>, <<"f", "r", "o", "m">> >>],
    [head |-> <<"y", "o", "u", "r", " ", "a", "p", "p", "l", "i", "c", "a", "t", "i", "o", "n", " ">>, lazy |-> FALSE, tail |-> TRUE,
     alts |-> << <<"a", "t">>, <<"t", "o">>, <<"f", "o", "r">> >>],
    [head |-> <<"r", "e", "c", "e", "i", "v", "e", "d", " ", "y", "o", "u", "r", " ", "a", "p", "p", "l", "i", "c", "a", "t", "i", "o", "n">>, lazy |-> TRUE, tail |-> FALSE,
     alts |-> << <<"a", "t">>, <<"f", "o", "r">>, <<"w", "i", "t", "h">> >>] >>

\* (?:\s+has been received|is being reviewed) at position c: c, else 0
ThankYouTailAt(s, c) ==
    IF \/ Run(s, c, Space) >= 1 /\ LitAt(s, c + Run(s, c, Space), <<"h", "a", "s", " ", "b", "e", "e", "n", " ", "r", "e", "c", "e", "i", "v", "e", "d">>)
       \/ LitAt(s, c, <<"i", "s", " ", "b", "e", "i", "n", "g", " ", "r", "e", "v", "i", "e", "w", "e", "d">>)
    THEN c ELSE 0

\* The end of the company group that starts at q, 0 when the pattern's tail
\* follows at none of its ends (the group is greedy: longest first).
CompanyEnd(s, q, P) ==
    IF ~P.tail THEN q + Run(s, q, CompanyChar)
    ELSE FirstPos([n \in 1..Run(s, q, CompanyChar) |->
                      ThankYouTailAt(s, q + Run(s, q, CompanyChar) + 1 - n)])

\* The company group from position q
CompanySpan(s, q, P) ==
    IF TokenAt(s, q, CompanyChar) = 0 \/ CompanyEnd(s, q, P) = 0 THEN NoSpan
    ELSE <<q, CompanyEnd(s, q, P)>>

\* \s+(?P<company>...)<tail> from position u
AfterAlt(s, u, P) ==
    FirstSpan([n \in 1..Run(s, u, Space) |-> CompanySpan(s, u + Run(s, u, Space) + 1 - n, P)])

\* (?:<alts>)\s+(?P<company>...)<tail> from position t, for one alternative
AltThenCompany(s, t, alt, P) ==
    IF LitAt(s, t, alt) THEN AfterAlt(s, t + Len(alt), P) ELSE NoSpan

\* the alternatives in their written order
AfterGap(s, t, P) ==
    FirstSpan([a \in DOMAIN P.alts |-> AltThenCompany(s, t, P.alts[a], P)])

\* The match of pattern P that starts at position i: the span of the company
\* group. A lazy .*? (re.DOTALL) skips as few characters as it can.
ThankYouAt(s, i, P) ==
    IF ~LitAt(s, i, P.head) THEN NoSpan
    ELSE IF ~P.lazy THEN AfterGap(s, i + Len(P.head), P)
    ELSE FirstSpan([n \in 1..(Len(s) + 2 - i - Len(P.head)) |->
                       AfterGap(s, i + Len(P.head) + n - 1, P)])

ThankYouGroups(s, c) ==
    IF c = NoSpan THEN NoMatch ELSE [found |-> TRUE, company |-> Sub(s, c[1], c[2])]

\* re.compile(pattern, re.I | re.DOTALL).search(s): the leftmost match.
ThankYouSearch(s, P) ==
    ThankYouGroups(s, FirstSpan([i \in 1..Len(s) |-> ThankYouAt(s, i, P)]))

\* ---------------------------------------------------- "Company:" field

\* Company<one of seps><pre><run>*(?P<c><group>+) at position i: the start of
\* the group, or 0.
CompanyFieldAt(s, i, seps, pre, run, group) ==
    IF /\ LitAt(s, i, <<"C", "o", "m", "p", "a", "n", "y">>)
       /\ i + 7 <= Len(s) /\ s[i + 7] \in seps
       /\ LitAt(s, i + 8, pre)
    THEN FirstPos([n \in 1..(Run(s, i + 8 + Len(pre), run) + 1) |->
                      TokenAt(s, Backtrack(s, i + 8 + Len(pre), run)[n], group)])
    ELSE 0

CompanyFieldGroup(s, q, group) ==
    IF q = 0 THEN NoMatch ELSE [found |-> TRUE, c |-> Sub(s, q, q + Run(s, q, group))]

CompanyField(s, seps, pre, run, group) ==
    CompanyFieldGroup(s, FirstPos([i \in 1..Len(s) |-> CompanyFieldAt(s, i, seps, pre, run, group)]),
                      group)

\* [^\n\r]
NotLineBreak == NotClass({"\n", "\r"})

\* [^\\n\\r] in gmail_parser.py excludes a backslash and the letters n and r
\* (re.I: in either case), not the line breaks.
NotBackslashNR == NotClass({"\\", "n", "N", "r", "R"})

\* re.search(r"Company[:\-]\s*(?P<c>[^\n\r]+)", s, re.I) of backend/app.py
company_field_app(s) == CompanyField(s, {":", "-"}, <<>>, Space, NotLineBreak)

\* re.search(r"Company[:\\-]\\s*(?P<c>[^\\n\\r]+)", s, re.I) of gmail_parser.py
company_field_gmail(s) == CompanyField(s, {":", "\\", "-"}, <<"\\">>, LetterS, NotBackslashNR)

\* ------------------------------------------------ clean_company_name

\* [.,;:!?]
TrailingPunct == Class({".", ",", ";", ":", "!", "?"})

\* re.sub(r'[.,;:!?]+$', '', name) on a text that ends in no line break.
RECURSIVE StripTrailingPunct(_)
StripTrailingPunct(name) ==
    IF name # <<>> /\ In(name[Len(name)], TrailingPunct)
    THEN StripTrailingPunct(SubSeq(name, 1, Len(name) - 1))
    ELSE name

trailing_phrases == <<
    <<" ", "t", "e", "a", "m">>, <<" ", "c", "a", "r", "e", "e", "r", "s">>, <<" ", "r", "e", "c", "r", "u", "i", "t", "i", "n", "g">>, <<" ", "t", "a", "l", "e", "n", "t", " ", "a", "c", "q", "u", "i", "s", "i", "t", "i", "o", "n">>, <<" ", "h", "r">>, <<" ", "h", "i", "r", "i", "n", "g">> >>

\* if name.lower().endswith(phrase): name = name[:-(len(phrase))].strip()
StripPhrase(name, phrase) ==
    IF endswith(lower_str(name), phrase)
    THEN strip(SubSeq(name, 1, Len(name) - Len(phrase)))
    ELSE name

\* The loop over the phrases, from phrase k on.
RECURSIVE StripPhrases(_, _)
StripPhrases(name, k) ==
    IF k > Len(trailing_phrases) THEN name
    ELSE StripPhrases(StripPhrase(name, trailing_phrases[k]), k + 1)

clean_company_name(name) ==
    IF ~Truthy(name) THEN None
    ELSE StripPhrases(strip(StripTrailingPunct(strip(name))), 1)

\* ------------------------------------------ gmail_parser.py functions

is_application_email(subject, body) ==
    \/ Truthy(subject) /\ confirmation_regex(subject)
    \/ Truthy(body) /\ confirmation_regex(body)

\* A call that ended in an exception (re's TypeError on None).
Raised == [raised |-> TRUE, company |-> None, title |-> None, job_id |-> None]

Fields(company, title, job_id) ==
    [raised |-> FALSE, company |-> company, title |-> title, job_id |-> job_id]

\* The job id with the two searches in the other order: the subject first.
JobIdSubjectFirst(in_body, in_subject) ==
    IF in_subject.found THEN strip(in_subject.id)
    ELSE IF in_body.found THEN strip(in_body.id)
    ELSE None

\* m = <search of the body> or <search of the subject>
\* if m: result['job_id'] = m.group(1).strip()
JobId(in_body, in_subject) ==
    IF in_body.found THEN strip(in_body.id)
    ELSE IF in_subject.found THEN strip(in_subject.id)
    ELSE None

\* A title that defaults to '' where no subject split matches.
TitleOrEmpty(m2) == IF m2.found THEN strip(m2.title) ELSE <<>>

\* if m2: result['title'] = m2.group('title').strip()
Title(m2) == IF m2.found THEN strip(m2.title) ELSE None

\* A later strategy without the `if not result['company']` guard: its match
\* replaces the company an earlier strategy set.
FallBackOverride(current, found, value) ==
    IF found THEN value ELSE current

\* A later strategy of the company cascade: it runs only while no company is
\* set (`if not result['company']`), and sets one only when it matches.
FallBack(current, found, value) ==
    IF ~Truthy(current) /\ found THEN value ELSE current

\* regex.search(subject), then regex.search(body), for one thank-you pattern
ThankYouEither(subject, body, P) ==
    FirstOr(SelectSeq(<<ThankYouSearch(subject, P), ThankYouSearch(body, P)>>,
                      LAMBDA m : m.found),
            NoMatch)

\* Strategy 2 of extract_fields: the thank-you patterns in order, each on the
\* subject and then on the body; the first match ends the loop.
ThankYouMatch(subject, body) ==
    FirstOr(SelectSeq([n \in DOMAIN thank_you_patterns |->
                          ThankYouEither(subject, body, thank_you_patterns[n])],
                      LAMBDA m : m.found),
            NoMatch)

\* clean_company_name(m.group('company')) of a match
CleanCompany(m) == IF m.found THEN clean_company_name(m.company) ELSE None

\* parts = subject.split(":", 1): parts[0]
BeforeColon(subject) ==
    SubSeq(subject, 1, FirstPos([k \in 1..Len(subject) |-> IF subject[k] = ":" THEN k ELSE 0]) - 1)

\* The candidate of strategy 4 looks like a company name.
LooksLikeCompany(candidate) ==
    /\ Truthy(candidate)
    /\ Len(candidate) > 2
    /\ lower_str(candidate) \notin { <<"r", "e">>, <<"f", "w", "d">>, <<"f", "w">> }

\* Strategy 4 of extract_fields applies: the subject holds a colon, at most 4
\* words stand before the first one, and they look like a company name.
SubjectPrefixFound(subject) ==
    /\ Truthy(subject)
    /\ Contains(subject, <<":">>)
    /\ WordCount(BeforeColon(subject)) <= 4
    /\ LooksLikeCompany(clean_company_name(BeforeColon(subject)))

\* Strategies 2 to 4 of extract_fields, after strategy 1 left company1.
Cascade(subject, body, company1) ==
    FallBack(FallBack(FallBack(company1,
                               ThankYouMatch(subject, body).found,
                               CleanCompany(ThankYouMatch(subject, body))),
                      company_field_gmail(OrEmpty(body)).found,
                      clean_company_name(company_field_gmail(OrEmpty(body)).c)),
             SubjectPrefixFound(subject),
             clean_company_name(BeforeColon(subject)))

\* extract_fields after its first strategy matched m2: regex.search(subject)
\* of strategy 2 raises on a subject that is None.
ExtractAfterSplit(subject, body, m2) ==
    IF ~Truthy(CleanCompany(m2)) /\ subject = None THEN Raised
    ELSE Fields(Cascade(subject, body, CleanCompany(m2)),
                Title(m2),
                JobId(job_id_regex_gmail(body), job_id_regex_gmail(OrEmpty(subject))))

\* job_id_regex.search(body) raises on a body that is None.
extract_fields(subject, body) ==
    IF body = None THEN Raised
    ELSE ExtractAfterSplit(subject, body, subject_pattern_gmail(OrEmpty(subject)))

\* -------------------------------------------- backend/app.py functions

\* result["company"] = m2.group("company").strip()
StripCompany(m2) == IF m2.found THEN strip(m2.company) ELSE None

ParseAfterSplit(subject, body, m2) ==
    Fields(FallBack(StripCompany(m2),
                    company_field_app(OrEmpty(body)).found,
                    strip(company_field_app(OrEmpty(body)).c)),
           Title(m2),
           JobId(job_id_regex_app(body), job_id_regex_app(OrEmpty(subject))))
        @@ [is_application |-> is_application_email(subject, body)]

parse_email_text(subject, body) ==
    IF body = None THEN Raised @@ [is_application |-> FALSE]
    ELSE ParseAfterSplit(subject, body, subject_pattern(OrEmpty(subject)))

\* ---------------------------------------- backend/app.py: the API layer

\* The Application row that parse_and_add builds from the parsed fields
\* (the wall-clock columns application_date, created_at and updated_at are
\* left out; the other columns take the defaults of the table model).
Application(id, parsed) ==
    [id |-> id, company_name |-> parsed.company, title |-> parsed.title,
     job_id |-> parsed.job_id, platform |-> None, status |-> "Applied", notes |-> ""]

\* A gate that lets every submission through.
RejectsNothing(parsed) == FALSE

\* if not parsed["is_application"]: raise HTTPException(status_code=400, ...)
Rejects(parsed) == ~parsed.is_application

\* ------------------------------------ gmail_parser.py: message_to_text

\* "\\n\\n" in the source: a backslash, an n, a backslash, an n.
PartSeparator == <<"\\", "n", "\\", "n">>

\* "\\n\\n".join(parts)
RECURSIVE Join(_)
Join(parts) ==
    IF parts = <<>> THEN <<>>
    ELSE IF Len(parts) = 1 THEN parts[1]
    ELSE parts[1] \o PartSeparator \o Join(Tail(parts))

\* The text of a fetched message: its decoded leaf parts, joined.
message_to_text(msg) == Join(msg.parts)

\* The loop body without `if not is_application_email(...): continue`: every
\* fetched message gives a row.
RowsAfterUnfiltered(rows, m) ==
    IF ~m.fetch_ok THEN rows
    ELSE Append(rows, [message_id |-> m.id, subject |-> m.subject,
                       company |-> extract_fields(m.subject, message_to_text(m)).company,
                       title |-> extract_fields(m.subject, message_to_text(m)).title,
                       job_id |-> extract_fields(m.subject, message_to_text(m)).job_id])

\* One pass of the loop body of main() for the listed message m: the rows
\* after it. A failed fetch raises inside the try block, and so would
\* extract_fields; the handler prints and continues.
RowsAfter(rows, m) ==
    IF ~m.fetch_ok THEN rows
    ELSE LET subj == m.subject
             text == message_to_text(m)
         IN  IF ~is_application_email(subj, text) THEN rows
             ELSE LET fields == extract_fields(subj, text)
                  IN  IF fields.raised THEN rows
                      ELSE Append(rows, [message_id |-> m.id, subject |-> subj,
                                         company |-> fields.company,
                                         title |-> fields.title,
                                         job_id |-> fields.job_id])

\* ---------------------------------------------------------------- bounds

\* The longest generated subject and body, in parts.
MaxSubjectParts == 2

MaxBodyParts == 2

\* The longest generated company name, in parts.
MaxNameParts == 3

\* The most Application rows the table is let grow to.
MaxRecords == 2

\* The most messages the Gmail search lists.
MaxMessages == 3

\* ---------------------------------------------------------------- inputs

\* Every concatenation of at most n of the parts.
RECURSIVE Generated(_, _)
Generated(parts, n) ==
    IF n = 0 THEN {<<>>}
    ELSE LET shorter == Generated(parts, n - 1)
         IN  shorter \cup {t \o p : t \in shorter, p \in parts}

SubjectParts == { <<"R", "e">>, <<":">>, <<" ", "-", " ">>, <<"A", "c", "m", "e", " ", "T", "e", "a", "m">> }

ScenarioSubjects == {
    None,
    <<"S", "o", "f", "t", "w", "a", "r", "e", " ", "E", "n", "g", "i", "n", "e", "e", "r", " ", "I", "n", "t", "e", "r", "n", " ", "-", " ", "A", "c", "m", "e", " ", "C", "o", "r", "p">>,
    <<"Y", "o", "u", "r", " ", "w", "e", "e", "k", "l", "y", " ", "n", "e", "w", "s", "l", "e", "t", "t", "e", "r">>,
    <<"A", "p", "p", "l", "i", "c", "a", "t", "i", "o", "n", " ", "C", "o", "n", "f", "i", "r", "m", "a", "t", "i", "o", "n">>,
    <<"R", "e", ":", " ", "i", "n", "t", "e", "r", "v", "i", "e", "w", " ", "s", "c", "h", "e", "d", "u", "l", "i", "n", "g">>,
    <<"F", "w", "d", ":", " ", "o", "f", "f", "e", "r">>,
    <<"A", "c", "m", "e", " ", "C", "o", "r", "p", " ", "T", "e", "a", "m", ":", " ", "y", "o", "u", "r", " ", "a", "p", "p", "l", "i", "c", "a", "t", "i", "o", "n">>,
    <<"I", "n", "t", "e", "r", "n", "\\", "-", "\\", "I", "n", "i", "t", "e", "c", "h">>,
    <<"R", "e", "q", "#", "7", "7", " ", "u", "p", "d", "a", "t", "e">>,
    <<"T", "h", "a", "n", "k", "s", " ", "f", "o", "r", " ", "a", "p", "p", "l", "y", "i", "n", "g", " ", "t", "o", " ", "I", "n", "i", "t", "e", "c", "h">>,
    <<"E", "n", "g", "i", "n", "e", "e", "r", " ", "|", " ", "G", "l", "o", "b", "e", "x", " ", "h", "i", "r", "i", "n", "g">> }

Subjects == ScenarioSubjects \cup Generated(SubjectParts, MaxSubjectParts)

BodyParts == { <<"T", "h", "a", "n", "k", "s", " ", "f", "o", "r", " ", "a", "p", "p", "l", "y", "i", "n", "g", " ", "t", "o", " ", "A", "c", "m", "e", ".", " ">>, <<"C", "o", "m", "p", "a", "n", "y", ":", " ", "G", "l", "o", "b", "e", "x", " ", "I", "n", "c", ".", "\n">>, <<"R", "e", "q", "#", "4", "2", " ">> }

ScenarioBodies == {
    None,
    <<"T", "h", "a", "n", "k", " ", "y", "o", "u", " ", "f", "o", "r", " ", "a", "p", "p", "l", "y", "i", "n", "g", " ", "t", "o", " ", "A", "c", "m", "e", " ", "C", "o", "r", "p", ".", " ", "R", "e", "q", " ", "I", "D", ":", " ", "R", "-", "1", "2", "3", "4">>,
    <<"C", "h", "e", "c", "k", " ", "o", "u", "t", " ", "o", "u", "r", " ", "b", "l", "o", "g">>,
    <<"C", "o", "m", "p", "a", "n", "y", ":", " ", "G", "l", "o", "b", "e", "x", " ", "I", "n", "c", ".", "\n", "W", "e", " ", "h", "a", "v", "e", " ", "r", "e", "c", "e", "i", "v", "e", "d", " ", "y", "o", "u", "r", " ", "a", "p", "p", "l", "i", "c", "a", "t", "i", "o", "n", ".">>,
    <<"R", "e", "q", "u", "i", "s", "i", "t", "i", "o", "n", " ", "I", "D", ":", " ", "1", "2", "3", "4">>,
    <<"J", "o", "b", " ", "I", "D", ":", " ", "A", "-", "1">>,
    <<"C", "o", "m", "p", "a", "n", "y", ":", "\\", " ", "H", "o", "o", "l", "i", " ", "t", "e", "a", "m", ".">>,
    <<"Y", "o", "u", "r", " ", "a", "p", "p", "l", "i", "c", "a", "t", "i", "o", "n", " ", "t", "o", " ", "I", "n", "i", "t", "e", "c", "h", " ", "h", "a", "s", " ", "b", "e", "e", "n", " ", "r", "e", "c", "e", "i", "v", "e", "d", ".", " ", "C", "o", "m", "p", "a", "n", "y", ":", "\\", "G", "l", "o", "b", "e", "x">>,
    <<"W", "e", " ", "r", "e", "c", "e", "i", "v", "e", "d", " ", "y", "o", "u", "r", " ", "a", "p", "p", "l", "i", "c", "a", "t", "i", "o", "n", " ", "f", "o", "r", " ", "t", "h", "e", " ", "r", "o", "l", "e", " ", "a", "t", " ", "U", "m", "b", "r", "e", "l", "l", "a", ",", " ", "t", "h", "a", "n", "k", "s">>,
    <<"A", "p", "p", "l", "i", "c", "a", "t", "i", "o", "n", " ", "r", "e", "c", "e", "i", "v", "e", "d", " ", "f", "r", "o", "m", " ", "H", "o", "o", "l", "i", "!", "\n", "R", "e", "q", "#", "5", "5">>,
    <<"t", "h", "a", "n", "k", " ", "y", "o", "u", " ", "f", "o", "r", " ", "a", "p", "p", "l", "y", "i", "n", "g", " ", "t", "o", " ", " ", ".">> }

Bodies == ScenarioBodies \cup Generated(BodyParts, MaxBodyParts)

NameParts == { <<"A", "c", "m", "e">>, <<" ", "T", "e", "a", "m">>, <<" ", "C", "a", "r", "e", "e", "r", "s">>, <<".">>, <<" ">> }

Names == {None} \cup Generated(NameParts, MaxNameParts)

\* The (subject, body) forms submitted to /api/parse_and_add: Form(...) makes
\* both required texts.
Forms == {
    [subject |-> <<"E", "n", "g", "i", "n", "e", "e", "r", " ", "|", " ", "G", "l", "o", "b", "e", "x">>, body |-> <<"A", "p", "p", "l", "i", "c", "a", "t", "i", "o", "n", " ", "r", "e", "c", "e", "i", "v", "e", "d", ".", " ", "J", "o", "b", " ", "I", "D", ":", " ", "A", "-", "1">>],
    [subject |-> <<"A", "p", "p", "l", "i", "c", "a", "t", "i", "o", "n", " ", "C", "o", "n", "f", "i", "r", "m", "a", "t", "i", "o", "n">>, body |-> <<"C", "o", "m", "p", "a", "n", "y", ":", " ", "G", "l", "o", "b", "e", "x", " ", "I", "n", "c", ".", "\n", "t", "h", "a", "n", "k", "s">>],
    [subject |-> <<"T", "h", "a", "n", "k", " ", "y", "o", "u", " ", "f", "o", "r", " ", "a", "p", "p", "l", "y", "i", "n", "g", " ", "-", " ", "I", "n", "i", "t", "e", "c", "h">>, body |-> <<"R", "e", "q", "#", "4", "2", " ", "s", "e", "e", " ", "y", "o", "u">>],
    [subject |-> <<"Y", "o", "u", "r", " ", "w", "e", "e", "k", "l", "y", " ", "n", "e", "w", "s", "l", "e", "t", "t", "e", "r">>, body |-> <<"C", "h", "e", "c", "k", " ", "o", "u", "t", " ", "o", "u", "r", " ", "b", "l", "o", "g">>],
    [subject |-> <<"R", "e", ":", " ", "i", "n", "t", "e", "r", "v", "i", "e", "w", " ", "s", "c", "h", "e", "d", "u", "l", "i", "n", "g">>, body |-> <<"s", "e", "e", " ", "y", "o", "u", " ", "a", "t", " ", "1", "0">>] }

\* uuid.uuid4() values.
UUIDs == 1..(MaxRecords + 1)

\* The messages a Gmail search can list: id, whether messages().get succeeds,
\* the Subject header ('' when the message has none) and the decoded parts.
Mailbox == {
    [id |-> "m1", fetch_ok |-> TRUE, subject |-> <<"S", "o", "f", "t", "w", "a", "r", "e", " ", "E", "n", "g", "i", "n", "e", "e", "r", " ", "I", "n", "t", "e", "r", "n", " ", "-", " ", "A", "c", "m", "e", " ", "C", "o", "r", "p">>,
     parts |-> << <<"T", "h", "a", "n", "k", " ", "y", "o", "u", " ", "f", "o", "r", " ", "a", "p", "p", "l", "y", "i", "n", "g", " ", "t", "o", " ", "A", "c", "m", "e", " ", "C", "o", "r", "p", ".", " ", "R", "e", "q", " ", "I", "D", ":", " ", "R", "-", "1", "2", "3", "4">> >>],
    [id |-> "m2", fetch_ok |-> TRUE, subject |-> <<"Y", "o", "u", "r", " ", "w", "e", "e", "k", "l", "y", " ", "n", "e", "w", "s", "l", "e", "t", "t", "e", "r">>,
     parts |-> << <<"C", "h", "e", "c", "k", " ", "o", "u", "t", " ", "o", "u", "r", " ", "b", "l", "o", "g">> >>],
    [id |-> "m3", fetch_ok |-> FALSE, subject |-> <<"A", "p", "p", "l", "i", "c", "a", "t", "i", "o", "n", " ", "r", "e", "c", "e", "i", "v", "e", "d">>,
     parts |-> << <<"W", "e", " ", "h", "a", "v", "e", " ", "r", "e", "c", "e", "i", "v", "e", "d", " ", "y", "o", "u", "r", " ", "a", "p", "p", "l", "i", "c", "a", "t", "i", "o", "n", ".">> >>],
    [id |-> "m4", fetch_ok |-> TRUE, subject |-> <<>>,
     parts |-> << <<"C", "o", "m", "p", "a", "n", "y", ":", "\\", " ", "H", "o", "o", "l", "i", " ", "t", "e", "a", "m", ".">>, <<"W", "e", " ", "h", "a", "v", "e", " ", "r", "e", "c", "e", "i", "v", "e", "d", " ", "y", "o", "u", "r", " ", "a", "p", "p", "l", "i", "c", "a", "t", "i", "o", "n", ".">> >>],
    [id |-> "m5", fetch_ok |-> TRUE, subject |-> <<"A", "c", "m", "e", ":", " ", "R", "e", "q", "#", "9">>,
     parts |-> << <<"t", "e", "x", "t">>, <<"T", "h", "a", "n", "k", "s", ".", " ", "A", "p", "p", "l", "i", "c", "a", "t", "i", "o", "n", " ", "r", "e", "c", "e", "i", "v", "e", "d", " ", "f", "r", "o", "m", " ", "A", "c", "m", "e">> >>] }

\* The lists of at most n distinct messages of the mailbox.
RECURSIVE Listings(_)
Listings(n) ==
    IF n = 0 THEN {<<>>}
    ELSE LET shorter == Listings(n - 1)
         IN  shorter \cup {Append(l, m) : l \in shorter, m \in Mailbox}

DistinctListings(n) ==
    {l \in Listings(n) : \A a, b \in DOMAIN l : a # b => l[a].id # l[b].id}

\* ----------------------------------------------------------------- state

VARIABLES
    subject,     \* the subject of the call (Spec), of the last form (SpecApi)
    body,        \* the body of the call, of the last form
    called,      \* the function that was called on (subject, body), or "none"
    result,      \* what it returned
    name,        \* the argument of clean_company_name (SpecClean)
    cleaned,     \* <<>>, <<clean(name)>>, <<clean(name), clean(clean(name))>>
    db,          \* the rows of the Application table, oldest first
    response,    \* the last response of /api/parse_and_add
    messages,    \* main(): the listed messages
    index,       \* main(): the number of messages processed
    rows,        \* main(): the rows collected
    export,      \* main(): the CSV files written, each the sequence of its rows
    pc           \* main(): "list", "loop", "done" ("idle" when main() does not run)

vars == <<subject, body, called, result, name, cleaned, db, response,
          messages, index, rows, export, pc>>

parse_vars == <<subject, body, called, result>>

clean_vars == <<name, cleaned>>

api_vars == <<db, response>>

main_vars == <<messages, index, rows, export, pc>>

NoResult == [raised |-> FALSE]

NoResponse == [status |-> 0]

ParseIdle == subject = None /\ body = None /\ called = "none" /\ result = NoResult

CleanIdle == name = None /\ cleaned = <<>>

ApiIdle == db = <<>> /\ response = NoResponse

MainIdle == messages = <<>> /\ index = 0 /\ rows = <<>> /\ export = <<>> /\ pc = "idle"

\* ------------------------------------- Spec: one call of a parsing function

Init ==
    /\ subject \in Subjects
    /\ body \in Bodies
    /\ called = "none"
    /\ result = NoResult
    /\ CleanIdle /\ ApiIdle /\ MainIdle

CallIsApplicationEmail ==
    /\ called = "none"
    /\ called' = "is_application_email"
    /\ result' = [raised |-> FALSE, is_application |-> is_application_email(subject, body)]
    /\ UNCHANGED <<subject, body, clean_vars, api_vars, main_vars>>

CallExtractFields ==
    /\ called = "none"
    /\ called' = "extract_fields"
    /\ result' = extract_fields(subject, body)
    /\ UNCHANGED <<subject, body, clean_vars, api_vars, main_vars>>

CallParseEmailText ==
    /\ called = "none"
    /\ called' = "parse_email_text"
    /\ result' = parse_email_text(subject, body)
    /\ UNCHANGED <<subject, body, clean_vars, api_vars, main_vars>>

Next == CallIsApplicationEmail \/ CallExtractFields \/ CallParseEmailText

Spec == Init /\ [][Next]_vars

\* --------------------------- SpecClean: clean_company_name, applied twice

InitClean ==
    /\ name \in Names
    /\ cleaned = <<>>
    /\ ParseIdle /\ ApiIdle /\ MainIdle

Clean ==
    /\ cleaned = <<>>
    /\ cleaned' = <<clean_company_name(name)>>
    /\ UNCHANGED <<name, parse_vars, api_vars, main_vars>>

CleanAgain ==
    /\ Len(cleaned) = 1
    /\ cleaned' = Append(cleaned, clean_company_name(cleaned[1]))
    /\ UNCHANGED <<name, parse_vars, api_vars, main_vars>>

NextClean == Clean \/ CleanAgain

SpecClean == InitClean /\ [][NextClean]_vars

\* ------------------------------- SpecApi: calls of POST /api/parse_and_add

InitApi ==
    /\ db = <<>>
    /\ response = NoResponse
    /\ ParseIdle /\ CleanIdle /\ MainIdle

\* The calls of parse_and_add: a form with
\* parsed = parse_email_text(subject, body).
Calls == {[form |-> form, parsed |-> parse_email_text(form.subject, form.body)] : form \in Forms}

\* parse_and_add(subject, body) on a form that is rejected
ParseAndAddRejected ==
    \E call \in Calls :
        /\ Rejects(call.parsed)
        /\ subject' = call.form.subject
        /\ body' = call.form.body
        /\ response' = [status |-> 400, detail |-> "Not detected as an application email"]
        /\ UNCHANGED <<db, called, result, clean_vars, main_vars>>

\* parse_and_add(subject, body) on a form that is stored: the row gets a
\* fresh uuid4 as its primary key.
ParseAndAddStored ==
    \E call \in Calls :
        /\ Len(db) < MaxRecords
        /\ ~Rejects(call.parsed)
        /\ \E id \in UUIDs \ {db[k].id : k \in DOMAIN db} :
              /\ db' = Append(db, Application(id, call.parsed))
              /\ response' = [status |-> 200, success |-> TRUE, id |-> id]
        /\ subject' = call.form.subject
        /\ body' = call.form.body
        /\ UNCHANGED <<called, result, clean_vars, main_vars>>

NextApi == ParseAndAddRejected \/ ParseAndAddStored

SpecApi == InitApi /\ [][NextApi]_vars

\* ------------------------------ SpecMain: the export loop of main()

InitMain ==
    /\ messages \in DistinctListings(MaxMessages)
    /\ index = 0
    /\ rows = <<>>
    /\ export = <<>>
    /\ pc = "list"
    /\ ParseIdle /\ CleanIdle /\ ApiIdle

\* if not messages: print(...); return
NoMessages ==
    /\ pc = "list"
    /\ messages = <<>>
    /\ pc' = "done"
    /\ UNCHANGED <<messages, index, rows, export, parse_vars, clean_vars, api_vars>>

StartLoop ==
    /\ pc = "list"
    /\ messages # <<>>
    /\ pc' = "loop"
    /\ UNCHANGED <<messages, index, rows, export, parse_vars, clean_vars, api_vars>>

\* One iteration of `for i, m in enumerate(messages)`, its try block and handler.
ProcessMessage ==
    /\ pc = "loop"
    /\ index < Len(messages)
    /\ rows' = RowsAfter(rows, messages[index + 1])
    /\ index' = index + 1
    /\ UNCHANGED <<messages, export, pc, parse_vars, clean_vars, api_vars>>

\* writer.writeheader(); writer.writerows(rows)
WriteExport ==
    /\ pc = "loop"
    /\ index = Len(messages)
    /\ export' = Append(export, rows)
    /\ pc' = "done"
    /\ UNCHANGED <<messages, index, rows, parse_vars, clean_vars, api_vars>>

NextMain == NoMessages \/ StartLoop \/ ProcessMessage \/ WriteExport

SpecMain == InitMain /\ [][NextMain]_vars


\* ============================================================ properties

ExtractReturned == called = "extract_fields" /\ ~result.raised

ParseReturned == called = "parse_email_text" /\ ~result.raised

\* The first non-empty capture of a sequence of captures, None when there is none.
FirstNonEmpty(captures) == FirstOr(SelectSeq(captures, LAMBDA c : Truthy(c)), None)

\* What each strategy of extract_fields captures on its own, in the order of
\* the cascade (None when the strategy does not match).
Captures_gmail(s, b) == <<
    CleanCompany(subject_pattern_gmail(OrEmpty(s))),
    CleanCompany(ThankYouMatch(s, b)),
    IF company_field_gmail(OrEmpty(b)).found
    THEN clean_company_name(company_field_gmail(OrEmpty(b)).c) ELSE None,
    IF SubjectPrefixFound(s) THEN clean_company_name(BeforeColon(s)) ELSE None >>

\* What each strategy of parse_email_text captures on its own.
Captures_app(s, b) == <<
    StripCompany(subject_pattern(OrEmpty(s))),
    IF company_field_app(OrEmpty(b)).found
    THEN strip(company_field_app(OrEmpty(b)).c) ELSE None >>

\* The company is the first non-empty capture, and no later one.
IsFirstNonEmpty(company, captures) ==
    IF Truthy(FirstNonEmpty(captures))
    THEN company = FirstNonEmpty(captures)
    ELSE ~Truthy(company)

\* C1: the company that extract_fields and parse_email_text return is the
\* capture of the first strategy, in the fixed order of the cascade, that
\* yields a non-empty value; the capture of a later strategy is never used
\* once an earlier one yields a non-empty company.
C1_CascadePriority ==
    /\ ExtractReturned => IsFirstNonEmpty(result.company, Captures_gmail(subject, body))
    /\ ParseReturned => IsFirstNonEmpty(result.company, Captures_app(subject, body))

\* extract_fields returned the capture of its first strategy although the
\* thank-you strategy captures another company.
C1_Witness ==
    /\ ExtractReturned
    /\ Truthy(Captures_gmail(subject, body)[1])
    /\ Truthy(Captures_gmail(subject, body)[2])
    /\ Captures_gmail(subject, body)[1] # Captures_gmail(subject, body)[2]
    /\ result.company = Captures_gmail(subject, body)[1]

\* The job id a pattern's searches of body and subject give by the stated
\* precedence.
BodyFirst(in_body, in_subject, job_id) ==
    /\ in_body.found => job_id = strip(in_body.id)
    /\ (~in_body.found /\ in_subject.found) => job_id = strip(in_subject.id)
    /\ (~in_body.found /\ ~in_subject.found) => job_id = None

\* C2: for a subject and a body that are both text, the job id is the trimmed
\* capture of the first match in the body whenever the body matches, of the
\* subject only when the body has no match, and absent when neither matches;
\* in extract_fields and in parse_email_text.
C2_JobIdBodyFirst ==
    (subject # None /\ body # None) =>
        /\ ExtractReturned =>
               BodyFirst(job_id_regex_gmail(body), job_id_regex_gmail(subject), result.job_id)
        /\ ParseReturned =>
               BodyFirst(job_id_regex_app(body), job_id_regex_app(subject), result.job_id)

\* parse_email_text returned the job id of the body although the subject holds
\* another one.
C2_Witness ==
    /\ ParseReturned
    /\ subject # None
    /\ job_id_regex_app(body).found
    /\ job_id_regex_app(subject).found
    /\ strip(job_id_regex_app(subject).id) # strip(job_id_regex_app(body).id)
    /\ result.job_id = strip(job_id_regex_app(body).id)

\* C3: clean_company_name is idempotent: cleaning a cleaned name changes
\* nothing.
C3_Idempotent ==
    Len(cleaned) = 2 => cleaned[2] = cleaned[1]

\* C4: on a subject or a body that is absent or empty, extract_fields,
\* parse_email_text and is_application_email return normally; none raises.
C4_NeverRaises ==
    (called # "none" /\ (subject \in {None, <<>>} \/ body \in {None, <<>>})) => ~result.raised

\* The identifier that follows a complete label in the two bodies the
\* specification gives.
LabeledBodies == {
    [body |-> <<"T", "h", "a", "n", "k", " ", "y", "o", "u", " ", "f", "o", "r", " ", "a", "p", "p", "l", "y", "i", "n", "g", " ", "t", "o", " ", "A", "c", "m", "e", " ", "C", "o", "r", "p", ".", " ", "R", "e", "q", " ", "I", "D", ":", " ", "R", "-", "1", "2", "3", "4">>, job_id |-> <<"R", "-", "1", "2", "3", "4">>],
    [body |-> <<"R", "e", "q", "u", "i", "s", "i", "t", "i", "o", "n", " ", "I", "D", ":", " ", "1", "2", "3", "4">>, job_id |-> <<"1", "2", "3", "4">>],
    [body |-> <<"J", "o", "b", " ", "I", "D", ":", " ", "A", "-", "1">>, job_id |-> <<"A", "-", "1">>] }

\* C5: the job id is the identifier token that follows the complete label,
\* never a word of the label: 'Req ID: R-1234' gives 'R-1234', 'Requisition
\* ID: 1234' gives '1234', in extract_fields and in parse_email_text.
C5_JobIdAfterLabel ==
    \A l \in LabeledBodies :
        (body = l.body /\ (ExtractReturned \/ ParseReturned)) => result.job_id = l.job_id

\* The positions of the separators '-', ':', '|' in a subject.
Separators(s) == {k \in DOMAIN s : s[k] \in {"-", ":", "|"}}

BeforeSeparator(s) == SubSeq(s, 1, Min(Separators(s)) - 1)

AfterSeparator(s) == SubSeq(s, Min(Separators(s)) + 1, Len(s))

\* A one-line subject '<title><sep><company>' with text on both sides.
SplitForm(s) ==
    /\ s # None
    /\ "\n" \notin Range(s)
    /\ Separators(s) # {}
    /\ strip(BeforeSeparator(s)) # <<>>
    /\ strip(AfterSeparator(s)) # <<>>

\* C6: for a subject '<title> <sep> <company>' with <sep> one of '-', ':',
\* '|', extract_fields sets title to the trimmed text before the first
\* separator and company to the cleaned text after it.
C6_SubjectSplit ==
    (ExtractReturned /\ SplitForm(subject)) =>
        /\ result.title = strip(BeforeSeparator(subject))
        /\ result.company = clean_company_name(AfterSeparator(subject))

\* A body with a line 'Company: X' or 'Company- X': the remainder X of the line.
CompanyLine(b) == company_field_app(OrEmpty(b))

\* No strategy before the 'Company:' field yields a company: the subject holds
\* no separator and no thank-you phrase names one.
NothingBeforeField(s, b) ==
    /\ s # None /\ b # None
    /\ Separators(s) = {}
    /\ ~ThankYouMatch(s, b).found

\* C7: when no earlier strategy yields a company and the body holds a line
\* 'Company: X', the company is the normalized remainder of the line (subject
\* 'Application Confirmation' with a body that starts 'Company: Globex Inc.'
\* gives 'Globex Inc'), in extract_fields and in parse_email_text.
C7_CompanyField ==
    ((ExtractReturned \/ ParseReturned) /\ NothingBeforeField(subject, body)
        /\ CompanyLine(body).found) =>
        result.company = clean_company_name(CompanyLine(body).c)

\* The text before the first colon of the subject is 're', 'fwd' or 'fw'.
ReplyPrefix(s) ==
    /\ s # None
    /\ Contains(s, <<":">>)
    /\ lower_str(BeforeColon(s)) \in { <<"r", "e">>, <<"f", "w", "d">>, <<"f", "w">> }

\* C8: for a subject whose text before the first colon is 're', 'fwd' or 'fw'
\* and a body with no thank-you phrase and no 'Company:' line, the company is
\* absent, in extract_fields and in parse_email_text.
C8_NoReplyPrefixCompany ==
    ((ExtractReturned \/ ParseReturned) /\ ReplyPrefix(subject) /\ body # None
        /\ ~ThankYouMatch(<<>>, body).found /\ ~CompanyLine(body).found) =>
        result.company = None

\* The row that a call of parse_and_add stored last.
Stored == db'[Len(db')]

\* A call of parse_and_add on a submission that is no application: a client
\* error, and the table as it was.
GateRejects ==
    /\ response'.status = 400
    /\ db' = db

\* A call on an application: one more row, with the parsed values and an id
\* that no stored row has.
GateStores ==
    /\ response'.status = 200
    /\ Len(db') = Len(db) + 1
    /\ SubSeq(db', 1, Len(db)) = db
    /\ parse_email_text(subject', body') =
           Fields(Stored.company_name, Stored.title, Stored.job_id) @@ [is_application |-> TRUE]
    /\ response'.id = Stored.id
    /\ \A k \in DOMAIN db : db[k].id # Stored.id

\* C9: every call of parse_and_add on a submission that is not classified as
\* an application is rejected with HTTP 400 and leaves the stored records
\* unchanged; every call on an application adds exactly one record with the
\* parsed company, title and job id and an id no stored record has.
C9_SubmissionGate ==
    [][IF is_application_email(subject', body') THEN GateStores ELSE GateRejects]_vars

\* A rejected call after two stored ones.
C9_Witness ==
    /\ Len(db) = 2
    /\ db[1].id # db[2].id
    /\ response.status = 400

\* The message is fetched and is_application_email accepts it.
Accepted(m) == m.fetch_ok /\ is_application_email(m.subject, message_to_text(m))

\* The row of an accepted message.
RowOf(m) ==
    [message_id |-> m.id, subject |-> m.subject,
     company |-> extract_fields(m.subject, message_to_text(m)).company,
     title |-> extract_fields(m.subject, message_to_text(m)).title,
     job_id |-> extract_fields(m.subject, message_to_text(m)).job_id]

\* The accepted messages of a list, in the order of the list.
AcceptedOf(ms) == SelectSeq(ms, LAMBDA m : Accepted(m))

\* One row per accepted message, in the order of the list.
ExpectedRows(ms) == [k \in DOMAIN AcceptedOf(ms) |-> RowOf(AcceptedOf(ms)[k])]

\* C10: the rows main() collects and exports are exactly one row per message
\* that is fetched and accepted by is_application_email, in the order listed,
\* and none for a rejected message; a message whose processing raises is
\* skipped, the loop goes on and the export is written.
C10_ExportRows ==
    /\ rows = ExpectedRows(SubSeq(messages, 1, index))
    /\ export # <<>> => export = <<ExpectedRows(messages)>>
    /\ (pc = "done" /\ messages # <<>>) => (index = Len(messages) /\ export # <<>>)
    /\ index <= Len(messages)


\* The export of a list that starts with an accepted message, holds a failed
\* fetch and ends with another accepted message: two rows.
C10_Witness ==
    /\ pc = "done"
    /\ Len(export) = 1
    /\ Len(messages) >= 3
    /\ Len(export[1]) = 2
    /\ Accepted(messages[1])
    /\ \E k \in 2..Len(messages) : ~messages[k].fetch_ok
    /\ export[1][2].message_id = messages[Len(messages)].id

\* C11: when subject and body are both the empty string, is_application is
\* false and company, title and job_id are all absent (None), in
\* parse_email_text and in is_application_email with extract_fields.
C11_AbsenceOnEmpty ==
    (subject = <<>> /\ body = <<>>) =>
        /\ called = "is_application_email" => result = [raised |-> FALSE, is_application |-> FALSE]
        /\ called = "extract_fields" => result = Fields(None, None, None)
        /\ called = "parse_email_text" =>
               result = Fields(None, None, None) @@ [is_application |-> FALSE]

\* parse_email_text returned on an empty subject and an empty body.
C11_Witness ==
    /\ subject = <<>>
    /\ body = <<>>
    /\ called = "parse_email_text"
    /\ ~result.raised
    /\ ~result.is_application
    /\ result.title = None

\* C12: clean_company_name returns absent (None), never an empty string, for
\* every input that is empty after trimming its whitespace, such as '   '.
C12_BlankIsAbsent ==
    (Len(cleaned) >= 1 /\ name # None /\ strip(name) = <<>>) => cleaned[1] = None
====
